---- MODULE Spec2Model ----
(***************************************************************************)
(* Model of src/network.rs: the serializers that turn an Interface or a    *)
(* Device description into a systemd-networkd unit name and unit file.     *)
(*                                                                         *)
(* Text is modelled at character level: a string is a sequence of          *)
(* one-character strings, so that padding, separators, blank lines and     *)
(* line terminators are all visible to the properties.                     *)
(***************************************************************************)
EXTENDS Integers, Sequences, FiniteSets, TLC

VARIABLES self, called, panicked, returned

vars == <<self, called, panicked, returned>>

(***************************************************************************)
(* Strings                                                                 *)
(***************************************************************************)

\* A string literal as the sequence of its characters.
Chars(s) == [i \in 1..Len(s) |-> SubSeq(s, i, i)]

\* Option<T>::None
None == [some |-> FALSE]

\* Option<T>::Some(v)
Some(v) == [some |-> TRUE, val |-> v]

\* The value a method that has not returned leaves behind.
NoValue == <<"<no value>">>

NL == "\n"

RECURSIVE Concat(_)
\* The concatenation of a sequence of strings.
Concat(ss) == IF ss = <<>> THEN <<>> ELSE Head(ss) \o Concat(Tail(ss))

(***************************************************************************)
(* Number formatting (the format specs used by the format! calls)          *)
(***************************************************************************)

DecDigits == <<"0", "1", "2", "3", "4", "5", "6", "7", "8", "9">>

HexDigits == <<"0", "1", "2", "3", "4", "5", "6", "7", "8", "9",
               "a", "b", "c", "d", "e", "f">>

RECURSIVE FmtRadix(_, _, _)
\* An unsigned integer in the given radix, no padding: "{}" and "{:x}".
FmtRadix(n, radix, digits) ==
    IF n < radix THEN <<digits[n + 1]>>
    ELSE Append(FmtRadix(n \div radix, radix, digits), digits[(n % radix) + 1])

RECURSIVE PadZero(_, _)
\* Left-pads with "0" up to the minimum width; longer text is left alone.
PadZero(s, width) == IF Len(s) >= width THEN s ELSE PadZero(<<"0">> \o s, width)

\* "{}" of an unsigned integer.
FmtDec(n) == FmtRadix(n, 10, DecDigits)

\* Variant: "{}" where "{:02}" is meant, the priority left unpadded.
FmtDec02_unpadded(n) == FmtRadix(n, 10, DecDigits)

\* "{:02}" of an unsigned integer.
FmtDec02(n) == PadZero(FmtRadix(n, 10, DecDigits), 2)

\* "{:02x}" of a u8.
FmtHex02(n) == PadZero(FmtRadix(n, 16, HexDigits), 2)

(***************************************************************************)
(* Value types and their Display                                           *)
(***************************************************************************)

U8Max == 255

U8 == 0..U8Max

\* Variant: "{:x}" where "{:02x}" is meant, bytes below 0x10 as one digit.
MacAddr_fmt_unpadded(m) ==
    FmtRadix(m[1], 16, HexDigits)
    \o Concat([k \in 1..5 |-> <<":">> \o FmtRadix(m[k + 1], 16, HexDigits)])

\* impl fmt::Display for MacAddr; a MacAddr is a 6-tuple of u8.
MacAddr_fmt(m) ==
    FmtHex02(m[1]) \o <<":">> \o FmtHex02(m[2]) \o <<":">> \o FmtHex02(m[3]) \o <<":">>
    \o FmtHex02(m[4]) \o <<":">> \o FmtHex02(m[5]) \o <<":">> \o FmtHex02(m[6])

RECURSIVE Join(_, _)
\* The strings of ss with sep between consecutive ones.
Join(ss, sep) ==
    IF ss = <<>> THEN <<>>
    ELSE IF Len(ss) = 1 THEN ss[1]
    ELSE ss[1] \o sep \o Join(Tail(ss), sep)

\* std::net::Ipv4Addr
V4(a, b, c, d) == [v |-> 4, octets |-> <<a, b, c, d>>]

\* std::net::Ipv6Addr
V6(a, b, c, d, e, f, g, h) == [v |-> 6, segments |-> <<a, b, c, d, e, f, g, h>>]

RECURSIVE LongestZeroRun(_, _, _, _)
\* The first longest run of zero segments of s, as <<start, length>>, found by
\* one scan: cur is the run ending just before position i, best the longest
\* one seen so far.
LongestZeroRun(s, i, cur, best) ==
    IF i > Len(s) THEN best
    ELSE IF s[i] # 0 THEN LongestZeroRun(s, i + 1, <<i + 1, 0>>, best)
    ELSE LET run == <<cur[1], cur[2] + 1>>
         IN  LongestZeroRun(s, i + 1, run, IF run[2] > best[2] THEN run ELSE best)

\* A sequence of segments in lowercase hex without leading zeros, ":" between.
FmtSegments(t) == Join([k \in 1..Len(t) |-> FmtRadix(t[k], 16, HexDigits)], <<":">>)

\* Display of an Ipv6Addr with no embedded IPv4 address: segments in lowercase
\* hex without leading zeros, the first longest run of two or more zero
\* segments written as "::".
Ipv6Addr_fmt(s) ==
    LET zeros == LongestZeroRun(s, 1, <<1, 0>>, <<1, 0>>)
    IN  IF zeros[2] >= 2
        THEN FmtSegments(SubSeq(s, 1, zeros[1] - 1)) \o <<":", ":">>
             \o FmtSegments(SubSeq(s, zeros[1] + zeros[2], Len(s)))
        ELSE FmtSegments(s)

\* Display of an Ipv4Addr: dotted decimal.
Ipv4Addr_fmt(o) == Join([k \in 1..4 |-> FmtDec(o[k])], <<".">>)

\* impl fmt::Display for std::net::IpAddr
IpAddr_fmt(ip) == IF ip.v = 4 THEN Ipv4Addr_fmt(ip.octets) ELSE Ipv6Addr_fmt(ip.segments)

\* struct IpNetwork { addr, prefix }
IpNetwork(addr, prefix) == [addr |-> addr, prefix |-> prefix]

\* Variant: a prefix above 128 clamped to 128 before it is written.
IpNetwork_fmt_clamped(n) ==
    IpAddr_fmt(n.addr) \o <<"/">> \o FmtDec(IF n.prefix > 128 THEN 128 ELSE n.prefix)

\* impl fmt::Display for IpNetwork
IpNetwork_fmt(n) == IpAddr_fmt(n.addr) \o <<"/">> \o FmtDec(n.prefix)

\* struct NetworkRoute { destination, gateway }
NetworkRoute(destination, gateway) == [destination |-> destination, gateway |-> gateway]

(***************************************************************************)
(* The literal pieces of the format strings                                *)
(***************************************************************************)

NetworkSuffix == Chars(".network")

NetdevSuffix == Chars(".netdev")

MatchHeader == Chars("[Match]\n")

NetworkHeader == Chars("\n[Network]\n")

AddressHeader == Chars("\n[Address]\nAddress=")

RouteHeader == Chars("\n[Route]\nDestination=")

GatewayKey == Chars("\nGateway=")

NetDevHeader == Chars("[NetDev]\n")

NameKey == Chars("Name=")

MACAddressKey == Chars("MACAddress=")

DNSKey == Chars("DNS=")

BondKey == Chars("Bond=")

KindKey == Chars("Kind=")

SectionOpen == Chars("\n[")

SectionClose == Chars("]\n")

(***************************************************************************)
(* Interface                                                               *)
(***************************************************************************)

DefaultPriority == 10

\* Option::unwrap_or
UnwrapOr(opt, default) == IF opt.some THEN opt.val ELSE default

\* The outcome of a call that returns the string s.
Returned(s) == [panic |-> FALSE, val |-> s]

\* The outcome of a call that reaches panic!.
Panicked == [panic |-> TRUE]

\* Variant: the MAC address takes precedence over the name.
Interface_unit_name_mac_first(i) ==
    IF i.mac_address.some
    THEN Returned(FmtDec02(UnwrapOr(i.priority, DefaultPriority)) \o <<"-">>
                  \o MacAddr_fmt(i.mac_address.val) \o NetworkSuffix)
    ELSE IF i.name.some
    THEN Returned(FmtDec02(UnwrapOr(i.priority, DefaultPriority)) \o <<"-">>
                  \o i.name.val \o NetworkSuffix)
    ELSE Panicked

\* Variant: an empty identifier where panic! is meant (unwrap_or_default).
Interface_unit_name_defaulted(i) ==
    Returned(FmtDec02(UnwrapOr(i.priority, DefaultPriority)) \o <<"-">>
             \o (IF i.name.some THEN i.name.val
                 ELSE IF i.mac_address.some THEN MacAddr_fmt(i.mac_address.val)
                 ELSE <<>>)
             \o NetworkSuffix)

\* Interface::unit_name: the name, else the rendered MAC address, else panic!.
Interface_unit_name(i) ==
    IF i.name.some
    THEN Returned(FmtDec02(UnwrapOr(i.priority, DefaultPriority)) \o <<"-">>
                  \o i.name.val \o NetworkSuffix)
    ELSE IF i.mac_address.some
    THEN Returned(FmtDec02(UnwrapOr(i.priority, DefaultPriority)) \o <<"-">>
                  \o MacAddr_fmt(i.mac_address.val) \o NetworkSuffix)
    ELSE Panicked

\* Variant: an absent name written as an empty Name= line.
Interface_config_match_placeholder(i) ==
    MatchHeader
    \o NameKey \o (IF i.name.some THEN i.name.val ELSE <<>>) \o <<NL>>
    \o (IF i.mac_address.some
        THEN MACAddressKey \o MacAddr_fmt(i.mac_address.val) \o <<NL>>
        ELSE <<>>)

\* The [Match] section of Interface::config.
Interface_config_match(i) ==
    MatchHeader
    \o (IF i.name.some THEN NameKey \o i.name.val \o <<NL>> ELSE <<>>)
    \o (IF i.mac_address.some
        THEN MACAddressKey \o MacAddr_fmt(i.mac_address.val) \o <<NL>>
        ELSE <<>>)

\* The [Network] section of Interface::config.
Interface_config_network(i) ==
    NetworkHeader
    \o Concat([k \in 1..Len(i.nameservers) |->
                  DNSKey \o IpAddr_fmt(i.nameservers[k]) \o <<NL>>])
    \o (IF i.bond.some THEN BondKey \o i.bond.val \o <<NL>> ELSE <<>>)

\* Variant: each [Address] section closed with a blank line of its own.
Interface_config_addresses_trailing(i) ==
    Concat([k \in 1..Len(i.ip_addresses) |->
               AddressHeader \o IpNetwork_fmt(i.ip_addresses[k]) \o <<NL, NL>>])

\* The [Address] sections of Interface::config.
Interface_config_addresses(i) ==
    Concat([k \in 1..Len(i.ip_addresses) |->
               AddressHeader \o IpNetwork_fmt(i.ip_addresses[k]) \o <<NL>>])

\* The [Route] sections of Interface::config.
Interface_config_routes(i) ==
    Concat([k \in 1..Len(i.routes) |->
               RouteHeader \o IpNetwork_fmt(i.routes[k].destination)
               \o GatewayKey \o IpAddr_fmt(i.routes[k].gateway) \o <<NL>>])

\* Variant: the [Route] loop placed before the [Address] loop.
Interface_config_routes_first(i) ==
    Interface_config_match(i) \o Interface_config_network(i)
    \o Interface_config_routes(i) \o Interface_config_addresses(i)

\* Interface::config
Interface_config(i) ==
    Interface_config_match(i) \o Interface_config_network(i)
    \o Interface_config_addresses(i) \o Interface_config_routes(i)

(***************************************************************************)
(* Device                                                                  *)
(***************************************************************************)

\* Variant: the interface suffix on a device's unit name.
Device_unit_name_network(d) ==
    FmtDec02(UnwrapOr(d.priority, DefaultPriority)) \o <<"-">> \o d.name \o NetworkSuffix

\* Device::unit_name
Device_unit_name(d) ==
    FmtDec02(UnwrapOr(d.priority, DefaultPriority)) \o <<"-">> \o d.name \o NetdevSuffix

\* The [NetDev] section of Device::config.
Device_config_netdev(d) ==
    NetDevHeader
    \o NameKey \o d.name \o <<NL>>
    \o KindKey \o d.kind \o <<NL>>
    \o MACAddressKey \o MacAddr_fmt(d.mac_address) \o <<NL>>

\* Variant: attributes collected by key, a repeated key written once.
Device_config_section_dedup(section) ==
    SectionOpen \o section.name \o SectionClose
    \o Concat([k \in 1..Len(section.attributes) |->
                  IF \E j \in 1..(k - 1) : section.attributes[j][1] = section.attributes[k][1]
                  THEN <<>>
                  ELSE section.attributes[k][1] \o <<"=">> \o section.attributes[k][2]
                       \o <<NL>>])

\* One custom section of Device::config: the body of the outer loop.
Device_config_section(section) ==
    SectionOpen \o section.name \o SectionClose
    \o Concat([k \in 1..Len(section.attributes) |->
                  section.attributes[k][1] \o <<"=">> \o section.attributes[k][2] \o <<NL>>])

\* Device::config
Device_config(d) ==
    Device_config_netdev(d)
    \o Concat([k \in 1..Len(d.sections) |-> Device_config_section(d.sections[k])])

(***************************************************************************)
(* Inputs: the values a caller may hand to the formatters                  *)
(***************************************************************************)

MaxNameservers == 2

MaxAddresses == 2

MaxRoutes == 2

MaxSections == 2

MaxAttributes == 2

\* All sequences over S of length at most n.
SeqsUpTo(S, n) == UNION {[1..k -> S] : k \in 0..n}

\* Option<T> over the values of S.
Option(S) == {None} \cup {Some(v) : v \in S}

ZeroMac == <<0, 0, 0, 0, 0, 0>>

FixtureMac == <<244, 0, 52, 9, 115, 238>>

Loopback4 == V4(127, 0, 0, 1)

Loopback6 == V6(0, 0, 0, 0, 0, 0, 0, 1)

LinkLocal6 == V6(65152, 0, 0, 0, 63126, 13567, 65033, 29511)

Nameservers == {Loopback4, Loopback6}

Networks == {IpNetwork(Loopback4, 8), IpNetwork(Loopback6, 128)}

Routes == {NetworkRoute(IpNetwork(Loopback4, 8), Loopback4),
           NetworkRoute(IpNetwork(LinkLocal6, 64), Loopback6)}

\* Option<u32> priorities: single digit, two digits, more, and absent.
Priorities == Option({0, 5, 9, 10, 20, 99, 100, 12345, 2147483647})

\* struct Interface
Interface(name, mac_address, priority, nameservers, ip_addresses, routes, bond) ==
    [type |-> "Interface", name |-> name, mac_address |-> mac_address,
     priority |-> priority, nameservers |-> nameservers,
     ip_addresses |-> ip_addresses, routes |-> routes, bond |-> bond]

\* struct Section
Section(name, attributes) == [name |-> name, attributes |-> attributes]

\* struct Device
Device(name, kind, mac_address, priority, sections) ==
    [type |-> "Device", name |-> name, kind |-> kind, mac_address |-> mac_address,
     priority |-> priority, sections |-> sections]

\* Interfaces that vary what the unit name is made of.
NamedInterfaces ==
    {Interface(n, m, p, <<>>, <<>>, <<>>, b) :
        n \in Option({Chars("lo"), Chars("eth0")}),
        m \in Option({ZeroMac, FixtureMac}),
        p \in Priorities,
        b \in Option({Chars("james")})}

\* Interfaces that vary what the unit file is made of.
ConfiguredInterfaces ==
    {Interface(n, m, p, ns, as, rs, b) :
        n \in Option({Chars("lo")}),
        m \in Option({FixtureMac}),
        p \in {None},
        ns \in SeqsUpTo(Nameservers, MaxNameservers),
        as \in SeqsUpTo(Networks, MaxAddresses),
        rs \in SeqsUpTo(Routes, MaxRoutes),
        b \in Option({Chars("james")})}

Interfaces == NamedInterfaces \cup ConfiguredInterfaces

\* Attributes with a repeated key.
Attributes == {<<Chars("foo"), Chars("bar")>>, <<Chars("foo"), Chars("baz")>>}

Sections ==
    {Section(Chars("Test"), a) : a \in SeqsUpTo(Attributes, MaxAttributes)}
    \cup {Section(Chars("Empty"), <<>>)}

\* Devices that vary what the unit name is made of.
NamedDevices ==
    {Device(n, k, m, p, s) :
        n \in {Chars("vlan0"), Chars("br0")},
        k \in {Chars("vlan"), Chars("bridge")},
        m \in {ZeroMac, FixtureMac},
        p \in Priorities,
        s \in {<<>>, <<Section(Chars("Test"), <<>>)>>}}

\* Devices that vary what the unit file is made of.
ConfiguredDevices ==
    {Device(Chars("vlan0"), Chars("vlan"), ZeroMac, p, s) :
        p \in {Some(20)},
        s \in SeqsUpTo(Sections, MaxSections)}

Devices == NamedDevices \cup ConfiguredDevices

\* MacAddr values: every byte value in every position, and mixed ones.
MacAddrs ==
    {[type |-> "MacAddr", mac |-> m] :
        m \in {[ZeroMac EXCEPT ![k] = b] : k \in 1..6, b \in U8}
              \cup [1..6 -> {0, 10, 244}] \cup {FixtureMac}}

\* IpNetwork values: every prefix the field's type holds.
IpNetworks ==
    {[type |-> "IpNetwork", net |-> IpNetwork(a, p)] :
        a \in {Loopback4, V4(129, 21, 50, 131), Loopback6, LinkLocal6},
        p \in U8}

(***************************************************************************)
(* The state machine: a caller holds one value and calls its methods       *)
(***************************************************************************)

Init ==
    /\ self \in Interfaces \cup Devices \cup MacAddrs \cup IpNetworks
    /\ called = "none"
    /\ panicked = FALSE
    /\ returned = NoValue

\* A method of self returns the string s.
Return(method, s) ==
    /\ called' = method
    /\ returned' = s
    /\ UNCHANGED <<self, panicked>>

\* A method of self panics: nothing is returned and the caller goes no further.
Panic(method) ==
    /\ called' = method
    /\ panicked' = TRUE
    /\ returned' = NoValue
    /\ UNCHANGED self

CallInterfaceUnitName ==
    /\ ~panicked
    /\ self.type = "Interface"
    /\ LET outcome == Interface_unit_name(self)
       IN  IF outcome.panic
           THEN Panic("Interface::unit_name")
           ELSE Return("Interface::unit_name", outcome.val)

CallInterfaceConfig ==
    /\ ~panicked
    /\ self.type = "Interface"
    /\ Return("Interface::config", Interface_config(self))

CallDeviceUnitName ==
    /\ ~panicked
    /\ self.type = "Device"
    /\ Return("Device::unit_name", Device_unit_name(self))

CallDeviceConfig ==
    /\ ~panicked
    /\ self.type = "Device"
    /\ Return("Device::config", Device_config(self))

CallMacAddrToString ==
    /\ ~panicked
    /\ self.type = "MacAddr"
    /\ Return("MacAddr::to_string", MacAddr_fmt(self.mac))

CallIpNetworkToString ==
    /\ ~panicked
    /\ self.type = "IpNetwork"
    /\ Return("IpNetwork::to_string", IpNetwork_fmt(self.net))

Next ==
    \/ CallInterfaceUnitName
    \/ CallInterfaceConfig
    \/ CallDeviceUnitName
    \/ CallDeviceConfig
    \/ CallMacAddrToString
    \/ CallIpNetworkToString

Spec == Init /\ [][Next]_vars

(***************************************************************************)
(* Reading text back: what a consumer of the unit names and files sees     *)
(***************************************************************************)

IsDigit(c) == c \in {"0", "1", "2", "3", "4", "5", "6", "7", "8", "9"}

IsLowerHex(c) == IsDigit(c) \/ c \in {"a", "b", "c", "d", "e", "f"}

DigitValue(c) == CHOOSE d \in 0..9 : DecDigits[d + 1] = c

HexValue(c) == CHOOSE d \in 0..15 : HexDigits[d + 1] = c

RECURSIVE ParseDec(_)
\* The number a nonempty string of decimal digits denotes; -1 for other text.
ParseDec(s) ==
    IF s = <<>> \/ ~IsDigit(s[Len(s)]) THEN -1
    ELSE IF Len(s) = 1 THEN DigitValue(s[1])
    ELSE LET high == ParseDec(SubSeq(s, 1, Len(s) - 1))
         IN  IF high < 0 THEN -1 ELSE high * 10 + DigitValue(s[Len(s)])

\* The position of the first c in s; 0 when there is none.
IndexOf(s, c) ==
    IF \E i \in 1..Len(s) : s[i] = c
    THEN CHOOSE i \in 1..Len(s) : s[i] = c /\ \A j \in 1..(i - 1) : s[j] # c
    ELSE 0

\* The position of the last c in s; 0 when there is none.
LastIndexOf(s, c) ==
    IF \E i \in 1..Len(s) : s[i] = c
    THEN CHOOSE i \in 1..Len(s) : s[i] = c /\ \A j \in (i + 1)..Len(s) : s[j] # c
    ELSE 0

\* The text of s before its first "-": the priority prefix of a unit name.
PriorityPrefix(s) == SubSeq(s, 1, IndexOf(s, "-") - 1)

\* The text of s after its first "-".
AfterPrefix(s) == SubSeq(s, IndexOf(s, "-") + 1, Len(s))

\* Whether s ends with suffix.
EndsWith(s, suffix) ==
    /\ Len(s) >= Len(suffix)
    /\ SubSeq(s, Len(s) - Len(suffix) + 1, Len(s)) = suffix

\* s without its last n characters.
DropLast(s, n) == SubSeq(s, 1, Len(s) - n)

\* The MAC address that "xx:xx:xx:xx:xx:xx" denotes, read two hex digits at a
\* time from the positions a reader of the 17-character form expects.
ParseMac(s) == [k \in 1..6 |-> HexValue(s[3 * k - 2]) * 16 + HexValue(s[3 * k - 1])]

\* The priority a unit name is built from.
EffectivePriority(v) == IF v.priority.some THEN v.priority.val ELSE 10

\* The number of decimal digits of n.
NumDigits(n) == CHOOSE k \in 1..10 : 10 ^ (k - 1) <= n /\ (k = 10 \/ n < 10 ^ k)

RECURSIVE Lines(_)
\* The lines of a document, without their terminators; text after the last
\* "\n" counts as one more line.
Lines(s) ==
    IF s = <<>> THEN <<>>
    ELSE LET n == IndexOf(s, NL)
         IN  IF n = 0 THEN <<s>>
             ELSE <<SubSeq(s, 1, n - 1)>> \o Lines(SubSeq(s, n + 1, Len(s)))

\* A section header line: "[...".
IsHeader(line) == line # <<>> /\ line[1] = "["

RECURSIVE ParseSections(_, _)
\* The sections of a unit file, read from its lines: each header with the
\* non-blank lines up to the next header. Lines before the first header are
\* kept under the header <<>>.
ParseSections(lines, acc) ==
    IF lines = <<>> THEN acc
    ELSE LET line == Head(lines)
         IN  IF IsHeader(line)
             THEN ParseSections(Tail(lines), Append(acc, [header |-> line, body |-> <<>>]))
             ELSE IF line = <<>>
             THEN ParseSections(Tail(lines), acc)
             ELSE IF acc = <<>>
             THEN ParseSections(Tail(lines), <<[header |-> <<>>, body |-> <<line>>]>>)
             ELSE ParseSections(Tail(lines),
                      [acc EXCEPT ![Len(acc)].body = Append(@, line)])

\* The lines an optional value contributes: one "key=value" line, or none.
OptionalLine(key, opt) == IF opt.some THEN <<Chars(key) \o opt.val>> ELSE <<>>

(***************************************************************************)
(* Properties                                                              *)
(***************************************************************************)

\* C1: Interface::unit_name of an interface with a name returns
\* "<prio>-<name>.network", <prio> being the priority or 10 when absent,
\* whatever the MAC address is; with no name but a MAC address it returns
\* "<prio>-<rendered MAC>.network", an all-zero MAC giving 00:00:00:00:00:00.
C1_InterfaceUnitName ==
    (called = "Interface::unit_name" /\ (self.name.some \/ self.mac_address.some)) =>
        /\ ~panicked
        /\ ParseDec(PriorityPrefix(returned)) = EffectivePriority(self)
        /\ EndsWith(returned, Chars(".network"))
        /\ LET identifier == DropLast(AfterPrefix(returned), 8)
           IN  IF self.name.some
               THEN identifier = self.name.val
               ELSE /\ Len(identifier) = 17
                    /\ ParseMac(identifier) = self.mac_address.val
                    /\ (self.mac_address.val = ZeroMac =>
                            identifier = Chars("00:00:00:00:00:00"))

\* C1 witness: unit_name has returned for an interface that has both a name
\* and a MAC address, and no priority.
C1_Witness ==
    /\ called = "Interface::unit_name"
    /\ self.name.some
    /\ self.mac_address.some
    /\ ~self.priority.some

\* C2: Interface::unit_name of an interface with neither name nor MAC address
\* panics: it returns no string, in particular no defaulted unit name.
C2_UnitNamePanicsWithoutIdentifier ==
    (called = "Interface::unit_name" /\ ~self.name.some /\ ~self.mac_address.some) =>
        panicked /\ returned = NoValue

\* C2 witness: unit_name was called on an interface with neither name nor MAC
\* address (and a priority and a bond set).
C2_Witness ==
    /\ called = "Interface::unit_name"
    /\ ~self.name.some
    /\ ~self.mac_address.some
    /\ self.priority.some
    /\ self.bond.some

\* C5: Device::unit_name returns "<prio>-<name>.netdev", <prio> being the
\* priority or 10 when absent; it never fails, and kind, mac_address and
\* sections have no part in the result.
C5_DeviceUnitName ==
    called = "Device::unit_name" =>
        /\ ~panicked
        /\ ParseDec(PriorityPrefix(returned)) = EffectivePriority(self)
        /\ AfterPrefix(returned) = self.name \o Chars(".netdev")

\* C5 witness: unit_name has returned for a device without priority that has
\* a custom section.
C5_Witness ==
    /\ called = "Device::unit_name"
    /\ ~self.priority.some
    /\ self.sections # <<>>
    /\ self.mac_address = FixtureMac

\* C6: in both unit names the priority prefix is the effective priority in
\* decimal, zero-padded to at least two digits: one leading zero for 0..9, the
\* two digits for 10..99, the full number without padding from 100 on; so the
\* prefix has at least two characters and parses back to the priority.
C6_PriorityPrefixPadded ==
    (called \in {"Interface::unit_name", "Device::unit_name"} /\ ~panicked) =>
        LET prefix == PriorityPrefix(returned)
            p      == EffectivePriority(self)
        IN  /\ Len(prefix) >= 2
            /\ ParseDec(prefix) = p
            /\ p <= 9 => prefix = <<"0", DecDigits[p + 1]>>
            /\ (10 <= p /\ p <= 99) => Len(prefix) = 2
            /\ p >= 100 => (Len(prefix) = NumDigits(p) /\ prefix[1] # "0")

\* C6 witness: a unit name was built from a single-digit priority.
C6_Witness ==
    /\ called \in {"Interface::unit_name", "Device::unit_name"}
    /\ ~panicked
    /\ self.priority = Some(5)
    /\ SubSeq(returned, 1, 3) = Chars("05-")

\* C9: a MacAddr renders as its six bytes in order, two lowercase hex digits
\* each, joined by ":": 17 characters, no uppercase letter, distinct addresses
\* giving distinct strings (the address reads back from the text), and
\* f4,00,34,09,73,ee giving "f4:00:34:09:73:ee".
C9_MacAddrDisplay ==
    called = "MacAddr::to_string" =>
        /\ Len(returned) = 17
        /\ \A i \in 1..Len(returned) :
               IF i % 3 = 0 THEN returned[i] = ":" ELSE IsLowerHex(returned[i])
        /\ Len(returned) = 17 => ParseMac(returned) = self.mac
        /\ self.mac = FixtureMac => returned = Chars("f4:00:34:09:73:ee")

\* C9 witness: a MacAddr with a byte below 0x10 and a byte with letters as
\* digits has been rendered.
C9_Witness ==
    /\ called = "MacAddr::to_string"
    /\ self.mac = FixtureMac

\* C10 as stated: the prefix of every IpNetwork that is rendered is in 0..128.
C10_PrefixAtMost128 ==
    called = "IpNetwork::to_string" => self.net.prefix \in 0..128

\* C10 amended: the prefix of an IpNetwork is any unsigned 8-bit value, 0 to
\* 255; nothing checks it against 128, and it is rendered in full in decimal
\* after the address and a "/".
C10_PrefixIsAnyU8 ==
    called = "IpNetwork::to_string" =>
        LET slash == LastIndexOf(returned, "/")
        IN  /\ self.net.prefix \in 0..255
            /\ slash > 0
            /\ SubSeq(returned, 1, slash - 1) = IpAddr_fmt(self.net.addr)
            /\ ParseDec(SubSeq(returned, slash + 1, Len(returned))) = self.net.prefix
            /\ self.net = IpNetwork(Loopback4, 8) => returned = Chars("127.0.0.1/8")
            /\ self.net = IpNetwork(Loopback6, 128) => returned = Chars("::1/128")
            /\ self.net = IpNetwork(LinkLocal6, 64) =>
                   returned = Chars("fe80::f696:34ff:fe09:7347/64")
            /\ self.net = IpNetwork(V4(129, 21, 50, 131), 32) =>
                   returned = Chars("129.21.50.131/32")

\* C10 witness: an IpNetwork with a prefix above 128 has been rendered.
C10_Witness ==
    /\ called = "IpNetwork::to_string"
    /\ self.net.prefix = 200
    /\ EndsWith(returned, Chars("/200"))

\* C3: Interface::config emits [Match], [Network], one [Address] per element
\* of ip_addresses, then one [Route] per element of routes, in that order;
\* Name precedes MACAddress in [Match]; the DNS lines follow the nameservers'
\* order and precede Bond in [Network]; the k-th [Address] carries the k-th
\* address, the k-th [Route] the k-th route as Destination then Gateway; no
\* [Address] follows a [Route]; the numbers of DNS lines, [Address] and
\* [Route] sections are the lengths of the three input sequences.
C3_InterfaceConfigOrder ==
    called = "Interface::config" =>
        LET sections == ParseSections(Lines(returned), <<>>)
            na == Len(self.ip_addresses)
            nr == Len(self.routes)
            macLine == IF self.mac_address.some
                       THEN <<Chars("MACAddress=") \o MacAddr_fmt(self.mac_address.val)>>
                       ELSE <<>>
            dnsLines == [k \in 1..Len(self.nameservers) |->
                            Chars("DNS=") \o IpAddr_fmt(self.nameservers[k])]
        IN  /\ Len(sections) = 2 + na + nr
            /\ sections[1] = [header |-> Chars("[Match]"),
                              body |-> OptionalLine("Name=", self.name) \o macLine]
            /\ sections[2] = [header |-> Chars("[Network]"),
                              body |-> dnsLines \o OptionalLine("Bond=", self.bond)]
            /\ \A k \in 1..na :
                   sections[2 + k] =
                       [header |-> Chars("[Address]"),
                        body |-> <<Chars("Address=") \o IpNetwork_fmt(self.ip_addresses[k])>>]
            /\ \A k \in 1..nr :
                   sections[2 + na + k] =
                       [header |-> Chars("[Route]"),
                        body |-> <<Chars("Destination=")
                                       \o IpNetwork_fmt(self.routes[k].destination),
                                   Chars("Gateway=") \o IpAddr_fmt(self.routes[k].gateway)>>]
            /\ \A j, k \in 1..Len(sections) :
                   (sections[j].header = Chars("[Route]")
                        /\ sections[k].header = Chars("[Address]")) => k < j

\* C3 witness: config has returned for an interface with name, MAC address,
\* bond, two different nameservers, two different addresses and two different
\* routes.
C3_Witness ==
    /\ called = "Interface::config"
    /\ self.name.some /\ self.mac_address.some /\ self.bond.some
    /\ Len(self.nameservers) = 2 /\ self.nameservers[1] # self.nameservers[2]
    /\ Len(self.ip_addresses) = 2 /\ self.ip_addresses[1] # self.ip_addresses[2]
    /\ Len(self.routes) = 2 /\ self.routes[1] # self.routes[2]

\* The lines of one custom section of a device's unit file.
SectionLines(section) ==
    <<<<>>, <<"[">> \o section.name \o <<"]">>>>
    \o [k \in 1..Len(section.attributes) |->
           section.attributes[k][1] \o <<"=">> \o section.attributes[k][2]]

\* C4: Device::config is the [NetDev] header, then always exactly the lines
\* Name=, Kind=, MACAddress= in that order, then every custom section in input
\* order as a blank line, the header [<name>] and one <key>=<value> line per
\* attribute in input order; attributes with the same key are each emitted, a
\* section without attributes is its header alone, and a device without
\* sections has nothing after the MACAddress line.
C4_DeviceConfig ==
    called = "Device::config" =>
        /\ ~panicked
        /\ returned[Len(returned)] = NL
        /\ Lines(returned) =
               <<Chars("[NetDev]"),
                 Chars("Name=") \o self.name,
                 Chars("Kind=") \o self.kind,
                 Chars("MACAddress=") \o MacAddr_fmt(self.mac_address)>>
               \o Concat([k \in 1..Len(self.sections) |-> SectionLines(self.sections[k])])

\* C4 witness: config has returned for a device whose first section has the
\* same key twice and whose second section has no attributes.
C4_Witness ==
    /\ called = "Device::config"
    /\ Len(self.sections) = 2
    /\ Len(self.sections[1].attributes) = 2
    /\ self.sections[1].attributes[1][1] = self.sections[1].attributes[2][1]
    /\ self.sections[2].attributes = <<>>

\* C7: Interface::unit_name on an interface with neither name nor MAC address
\* is the only call that fails; Interface::config returns a document for every
\* interface, and for one with neither name nor MAC address the [Match] header
\* is there with no Name or MACAddress line and no placeholder; with every
\* optional field absent and every sequence empty the document is exactly
\* "[Match]\n\n[Network]\n".
C7_OnlyUnitNameFails ==
    /\ panicked =>
           (called = "Interface::unit_name" /\ ~self.name.some /\ ~self.mac_address.some)
    /\ called = "Interface::config" =>
           /\ ~panicked
           /\ returned # NoValue
           /\ (~self.name.some /\ ~self.mac_address.some) =>
                  SubSeq(returned, 1, 10) = Chars("[Match]\n\n[")
           /\ (/\ ~self.name.some /\ ~self.mac_address.some /\ ~self.bond.some
               /\ self.nameservers = <<>> /\ self.ip_addresses = <<>>
               /\ self.routes = <<>>) =>
                  returned = Chars("[Match]\n\n[Network]\n")

\* C7 witness: config has returned for an interface with neither name nor MAC
\* address, no priority, no bond and empty sequences.
C7_Witness ==
    /\ called = "Interface::config"
    /\ ~panicked
    /\ self = Interface(None, None, None, <<>>, <<>>, <<>>, None)

\* C8: in the document Interface::config returns, every section header but
\* the first is preceded by exactly one blank line, and the document has no
\* trailing blank line: it ends with the single "\n" that ends its last line.
C8_OneBlankLineBetweenSections ==
    called = "Interface::config" =>
        LET n == Len(returned)
        IN  /\ n >= 2
            /\ returned[n] = NL
            /\ returned[n - 1] # NL
            /\ returned[1] = "["
            /\ \A i \in 2..n :
                   (returned[i] = "[" /\ returned[i - 1] = NL) =>
                       /\ i >= 4
                       /\ returned[i - 2] = NL
                       /\ returned[i - 3] # NL

\* C8 witness: config has returned a document with [Address] and [Route]
\* sections after [Network].
C8_Witness ==
    /\ called = "Interface::config"
    /\ Len(self.ip_addresses) = 2
    /\ Len(self.routes) = 1
    /\ self.nameservers = <<>>
    /\ ~self.bond.some

====
